---- MODULE Spec2Model ----
(***************************************************************************)
(* Model of jsend-middleware (src/index.js): the Jsend formatter class and *)
(* the Express middleware jsendMiddleware(config) that attaches it to res. *)
(*                                                                         *)
(* JavaScript values are tagged records [t, n, s]: t is the kind, n the    *)
(* number / boolean (0,1) / heap address, s the characters of a string     *)
(* (a sequence of characters, so that trim() can be computed; a character   *)
(* is written as a one-character string, or as "U+XXXX" when TLA+ has no    *)
(* way to write it).                                                        *)
(***************************************************************************)
EXTENDS Integers, Sequences, FiniteSets, TLC

VARIABLES
  config,    \* the argument jsendMiddleware was installed with
  phase,     \* per request: "pending" | "installed" | "faulted" (middleware step threw)
  jsend,     \* per request: TRUE when res.jsend has been attached
  log,       \* per request: calls received by that response target / its pipeline
  heap,      \* objects by address: caller-owned objects and the envelope's extra copy
  lastCall,  \* the most recent res.jsend.* call: its arguments and the fault it raised
  lastSent,  \* the most recent status+body pair written, and the target it went to
  ncalls     \* number of res.jsend.* calls made so far

vars == <<config, phase, jsend, log, heap, lastCall, lastSent, ncalls>>

----------------------------------------------------------------------------
(* Bounds *)

NumRequests == 2
MaxCalls == 1

Requests == 1..NumRequests

----------------------------------------------------------------------------
(* JavaScript values *)

Undefined == [t |-> "undefined", n |-> 0, s |-> <<>>]
Null == [t |-> "null", n |-> 0, s |-> <<>>]
Bool(b) == [t |-> "boolean", n |-> IF b THEN 1 ELSE 0, s |-> <<>>]
Num(k) == [t |-> "number", n |-> k, s |-> <<>>]
Str(cs) == [t |-> "string", n |-> 0, s |-> cs]
Obj(a) == [t |-> "object", n |-> a, s |-> <<>>]

\* typeof v
TypeOf(v) == IF v.t = "null" THEN "object" ELSE v.t

\* ToBoolean(v), as used by !v, v && w
Truthy(v) ==
  CASE v.t = "undefined" -> FALSE
    [] v.t = "null" -> FALSE
    [] v.t = "boolean" -> v.n = 1
    [] v.t = "number" -> v.n # 0
    [] v.t = "string" -> Len(v.s) > 0
    [] OTHER -> TRUE

\* ECMAScript WhiteSpace: TAB, VT, FF, SP, NBSP, ZWNBSP (BOM) and the space separators (Zs)
WhiteSpaceChars ==
  { "\t", "U+000B", "\f", " ", "U+00A0", "U+FEFF",
    "U+1680", "U+2000", "U+2001", "U+2002", "U+2003", "U+2004", "U+2005", "U+2006",
    "U+2007", "U+2008", "U+2009", "U+200A", "U+202F", "U+205F", "U+3000" }

\* ECMAScript LineTerminator: LF, CR, LS, PS
LineTerminatorChars == { "\n", "\r", "U+2028", "U+2029" }

\* the characters String.prototype.trim strips
IsWhitespace(c) == c \in WhiteSpaceChars \cup LineTerminatorChars

RECURSIVE TrimStart(_)
TrimStart(cs) ==
  IF cs = <<>> THEN <<>>
  ELSE IF IsWhitespace(Head(cs)) THEN TrimStart(Tail(cs)) ELSE cs

RECURSIVE TrimEnd(_)
TrimEnd(cs) ==
  IF cs = <<>> THEN <<>>
  ELSE IF IsWhitespace(cs[Len(cs)]) THEN TrimEnd(SubSeq(cs, 1, Len(cs) - 1)) ELSE cs

TrimNothing(cs) == cs

\* String.prototype.trim
Trim(cs) == TrimEnd(TrimStart(cs))

\* a default parameter / destructuring default: applies to undefined only
ParamDefault(v, d) == IF v = Undefined THEN d ELSE v

----------------------------------------------------------------------------
(* String literals of the source *)

SuccessLabel == Str(<<"s", "u", "c", "c", "e", "s", "s">>)
FailLabel == Str(<<"f", "a", "i", "l">>)
ErrorLabel == Str(<<"e", "r", "r", "o", "r">>)
DefaultMessage == Str(<<"I", "n", "t", "e", "r", "n", "a", "l", " ",
                        "S", "e", "r", "v", "e", "r", " ", "E", "r", "r", "o", "r">>)
SuccessStatus == 200
FailStatus == 400
ErrorStatus == 500

\* the messages of the thrown Errors, by name
InvalidDataKind == "Data must be an object or null."
InvalidMessage == "Error response must include a non-empty message string."
InvalidExtraKind == "Extra must be an object."
NoFault == "none"

----------------------------------------------------------------------------
(* Heap: addresses 1 and 2 are objects the caller owns; 3 and 4 hold the    *)
(* object literal { ...options.extra } of the envelope last sent and of the *)
(* one being built.                                                        *)

Addrs == {1, 2, 3, 4}
DataObj == Obj(1)
ExtraObj == Obj(2)
CallerAddrs == {1, 2}

NoProps == [k \in {} |-> Undefined]
Free == [live |-> FALSE, props |-> NoProps]
Live(p) == [live |-> TRUE, props |-> p]

OkLabel == Str(<<"o", "k">>)
InvalidLabel == Str(<<"i", "n", "v", "a", "l", "i", "d">>)
ExceptionLabel == Str(<<"e", "x", "c", "e", "p", "t", "i", "o", "n">>)
EmptyString == Str(<<>>)
TraceId == Str(<<"a", "b", "c", "1", "2", "3">>)
OtherTrace == Str(<<"z">>)

InitHeap ==
  [a \in Addrs |->
     CASE a = 1 -> Live("id" :> Num(1))
       [] a = 2 -> Live("traceId" :> TraceId)
       [] OTHER -> Free]

\* first address that holds no live object
Alloc(h) == CHOOSE a \in Addrs : ~h[a].live /\ \A b \in Addrs : ~h[b].live => a <= b

SpreadExtraAlias(h, extra) == [val |-> extra, heap |-> h]

\* { ...options.extra }: a new object with the own properties of extra
SpreadExtra(h, extra) ==
  LET a == Alloc(h)
  IN [val |-> Obj(a), heap |-> [h EXCEPT ![a] = Live(h[extra.n].props)]]

\* objects no longer referenced (the extra copy of a superseded envelope) are reclaimed
Collect(h, body) ==
  [a \in Addrs |->
     IF a \in CallerAddrs \/ ("extra" \in DOMAIN body /\ body["extra"] = Obj(a))
     THEN h[a] ELSE Free]

----------------------------------------------------------------------------
(* class Jsend *)

ExpressRes == [exists |-> TRUE, status |-> TRUE, json |-> TRUE]
ResShapes ==
  { ExpressRes,
    [exists |-> TRUE, status |-> FALSE, json |-> TRUE],
    [exists |-> TRUE, status |-> TRUE, json |-> FALSE],
    [exists |-> FALSE, status |-> FALSE, json |-> FALSE] }

\* constructor(res): TRUE when it does not throw "Invalid Express response object provided."
JsendConstructs(r) == r.exists /\ r.status /\ r.json

NoBody == [k \in {} |-> Undefined]
Thrown(msg, h) == [fault |-> msg, writes |-> <<>>, heap |-> h]

\* this.res.status(status).json(body)
Sent(status, body, h) ==
  [fault |-> NoFault,
   writes |-> << [op |-> "status", code |-> status, body |-> NoBody],
                 [op |-> "json", code |-> Undefined, body |-> body] >>,
   heap |-> h]

\* success(data = null, status = 200, statusLabel = "success")
Jsend_success(dataArg, statusArg, labelArg, h) ==
  LET data == ParamDefault(dataArg, Null)
      status == ParamDefault(statusArg, Num(SuccessStatus))
      statusLabel == ParamDefault(labelArg, SuccessLabel)
  IN IF Truthy(data) /\ TypeOf(data) # "object"
     THEN Thrown(InvalidDataKind, h)
     ELSE Sent(status, ("status" :> statusLabel) @@ ("data" :> data), h)

\* fail(data = null, status = 400, statusLabel = "fail")
Jsend_fail(dataArg, statusArg, labelArg, h) ==
  LET data == ParamDefault(dataArg, Null)
      status == ParamDefault(statusArg, Num(FailStatus))
      statusLabel == ParamDefault(labelArg, FailLabel)
  IN IF Truthy(data) /\ TypeOf(data) # "object"
     THEN Thrown(InvalidDataKind, h)
     ELSE Sent(status, ("status" :> statusLabel) @@ ("data" :> data), h)

EmptyOptions == [code |-> Undefined, details |-> Undefined, extra |-> Undefined]

SpreadAlways(cond, key, val) == key :> val

\* ...(cond && { key: val }): spreading a falsy value adds no property
SpreadIf(cond, key, val) == IF Truthy(cond) THEN key :> val ELSE NoBody

\* error(message = "Internal Server Error", status = 500, options = {}, statusLabel = "error")
Jsend_error(messageArg, statusArg, optionsArg, labelArg, h) ==
  LET message == ParamDefault(messageArg, DefaultMessage)
      status == ParamDefault(statusArg, Num(ErrorStatus))
      options == ParamDefault(optionsArg, EmptyOptions)
      statusLabel == ParamDefault(labelArg, ErrorLabel)
  IN IF TypeOf(message) # "string" \/ ~Truthy(Str(Trim(message.s)))
     THEN Thrown(InvalidMessage, h)
     ELSE IF Truthy(options.extra) /\ TypeOf(options.extra) # "object"
     THEN Thrown(InvalidExtraKind, h)
     ELSE
       LET copy == IF Truthy(options.extra)
                   THEN SpreadExtra(h, options.extra)
                   ELSE [val |-> Undefined, heap |-> h]
           response ==
             ("status" :> statusLabel) @@ ("message" :> message)
               @@ SpreadIf(options.code, "code", options.code)
               @@ SpreadIf(options.details, "details", options.details)
               @@ SpreadIf(options.extra, "extra", copy.val)
       IN Sent(status, response, copy.heap)

----------------------------------------------------------------------------
(* function jsendMiddleware(config = {}) *)

EmptyConfig == [successLabel |-> Undefined, failLabel |-> Undefined, errorLabel |-> Undefined]

Configs ==
  { EmptyConfig,
    [successLabel |-> OkLabel, failLabel |-> InvalidLabel, errorLabel |-> ExceptionLabel],
    [successLabel |-> EmptyString, failLabel |-> EmptyString, errorLabel |-> EmptyString] }

ResolveLabelsOr(cfg) ==
  [successLabel |-> IF Truthy(cfg.successLabel) THEN cfg.successLabel ELSE SuccessLabel,
   failLabel |-> IF Truthy(cfg.failLabel) THEN cfg.failLabel ELSE FailLabel,
   errorLabel |-> IF Truthy(cfg.errorLabel) THEN cfg.errorLabel ELSE ErrorLabel]

IgnoreConfig(cfg) ==
  [successLabel |-> SuccessLabel, failLabel |-> FailLabel, errorLabel |-> ErrorLabel]

\* const { successLabel = "success", failLabel = "fail", errorLabel = "error" } = config
ResolveLabels(cfg) ==
  [successLabel |-> ParamDefault(cfg.successLabel, SuccessLabel),
   failLabel |-> ParamDefault(cfg.failLabel, FailLabel),
   errorLabel |-> ParamDefault(cfg.errorLabel, ErrorLabel)]

SkipNext(valid) == IF valid THEN <<"attach">> ELSE <<>>

\* what one run of (req, res, next) => {...} does besides throwing: res.jsend = ..., next()
MiddlewareEvents(valid) == IF valid THEN <<"attach", "next">> ELSE <<>>

SharedRes(r) == 1

\* the res captured by the closures assigned to res.jsend.* for request r
BoundRes(r) == r

\* The closures take no label parameter: a label passed by the caller (labelArg)
\* is not forwarded.  new Jsend(res) inside them succeeds, res having passed the
\* same constructor when the closures were attached.
\* res.jsend.success = (data, status) => new Jsend(res).success(data, status, successLabel)
Wrapped_success(cfg, dataArg, statusArg, labelArg, h) ==
  Jsend_success(dataArg, statusArg, ResolveLabels(cfg).successLabel, h)

\* res.jsend.fail = (data, status) => new Jsend(res).fail(data, status, failLabel)
Wrapped_fail(cfg, dataArg, statusArg, labelArg, h) ==
  Jsend_fail(dataArg, statusArg, ResolveLabels(cfg).failLabel, h)

\* res.jsend.error = (message, status, options) =>
\*   new Jsend(res).error(message, status, options, errorLabel)
Wrapped_error(cfg, messageArg, statusArg, optionsArg, labelArg, h) ==
  Jsend_error(messageArg, statusArg, optionsArg, ResolveLabels(cfg).errorLabel, h)

----------------------------------------------------------------------------
(* Inputs *)

DataInputs ==
  { Undefined, Null, DataObj, EmptyString, Str(<<"x">>),
    Num(0), Num(7), Bool(FALSE), Bool(TRUE) }
\* (status, statusLabel) argument tails tried by CallSuccess and CallFail, and by CallError
DataTails == { <<Undefined, Undefined>>, <<Num(201), Undefined>>, <<Num(201), OkLabel>> }
ErrorTails == { <<Undefined, Undefined>>, <<Num(503), OkLabel>> }

Oops == Str(<<"O", "o", "p", "s">>)
MessageInputs ==
  { Undefined, Null, Num(5), EmptyString, Str(<<" ", "\t">>),
    Str(<<"\r">>), Str(<<" ", "\r", "\n">>), Str(<<"U+00A0", "\f">>),
    Oops, Str(<<" ", "a", " ">>) }

OptionInputs ==
  { Undefined }
  \cup [code : {Undefined, EmptyString, Str(<<"E", "1">>)},
        details : {Undefined, Num(0), DataObj},
        extra : {Undefined, ExtraObj}]
  \cup [code : {Undefined},
        details : {Undefined},
        extra : {Null, EmptyString, Str(<<"s">>), Num(0), Num(1), Bool(FALSE), Bool(TRUE)}]

FullOptions == [code |-> Str(<<"E", "1">>), details |-> DataObj, extra |-> ExtraObj]

\* (message, options) pairs tried by CallError
ErrorInputs ==
  (MessageInputs \X {Undefined, FullOptions}) \cup ({Oops} \X OptionInputs)

----------------------------------------------------------------------------
(* State machine *)

NoCall ==
  [req |-> 0, op |-> "none", data |-> Undefined, message |-> Undefined,
   status |-> Undefined, options |-> Undefined, label |-> Undefined, fault |-> NoFault]

NothingSent == [target |-> 0, code |-> Undefined, body |-> NoBody]

Init ==
  /\ config \in Configs
  /\ phase = [r \in Requests |-> "pending"]
  /\ jsend = [r \in Requests |-> FALSE]
  /\ log = [r \in Requests |-> <<>>]
  /\ heap = InitHeap
  /\ lastCall = NoCall
  /\ lastSent = NothingSent
  /\ ncalls = 0

\* one run of the middleware step for request r, handed response target shape
Middleware(r) ==
  /\ phase[r] = "pending"
  /\ \E shape \in ResShapes :
       /\ phase' = [phase EXCEPT ![r] =
                      IF JsendConstructs(shape) THEN "installed" ELSE "faulted"]
       /\ jsend' = [jsend EXCEPT ![r] = JsendConstructs(shape)]
       /\ log' = [log EXCEPT ![r] = @ \o MiddlewareEvents(JsendConstructs(shape))]
  /\ UNCHANGED <<config, heap, lastCall, lastSent, ncalls>>

\* the effect of a res.jsend.* call made through request r with outcome result
Respond(r, call, result) ==
  /\ ncalls' = ncalls + 1
  /\ lastCall' = [call EXCEPT !.fault = result.fault]
  /\ log' = [log EXCEPT ![BoundRes(r)] = @ \o [i \in 1..Len(result.writes) |-> result.writes[i].op]]
  /\ IF result.writes # <<>>
     THEN /\ lastSent' = [target |-> BoundRes(r),
                          code |-> result.writes[1].code,
                          body |-> result.writes[Len(result.writes)].body]
          /\ heap' = Collect(result.heap, result.writes[Len(result.writes)].body)
     ELSE UNCHANGED <<lastSent, heap>>
  /\ UNCHANGED <<config, phase, jsend>>

CallSuccess(r) ==
  /\ jsend[r]
  /\ ncalls < MaxCalls
  /\ \E d \in DataInputs, sl \in DataTails :
       Respond(r,
               [NoCall EXCEPT !.req = r, !.op = "success", !.data = d,
                              !.status = sl[1], !.label = sl[2]],
               Wrapped_success(config, d, sl[1], sl[2], heap))

CallFail(r) ==
  /\ jsend[r]
  /\ ncalls < MaxCalls
  /\ \E d \in DataInputs, sl \in DataTails :
       Respond(r,
               [NoCall EXCEPT !.req = r, !.op = "fail", !.data = d,
                              !.status = sl[1], !.label = sl[2]],
               Wrapped_fail(config, d, sl[1], sl[2], heap))

CallError(r) ==
  /\ jsend[r]
  /\ ncalls < MaxCalls
  /\ \E mo \in ErrorInputs, sl \in ErrorTails :
       Respond(r,
               [NoCall EXCEPT !.req = r, !.op = "error", !.message = mo[1], !.options = mo[2],
                              !.status = sl[1], !.label = sl[2]],
               Wrapped_error(config, mo[1], sl[1], mo[2], sl[2], heap))

\* obj[key] = val
SetProp(p, key, val) == [k \in DOMAIN p \cup {key} |-> IF k = key THEN val ELSE p[k]]

\* delete obj[key]
DeleteProp(p, key) == [k \in DOMAIN p \ {key} |-> p[k]]

\* after an envelope built from its options.extra was sent, the caller changes
\* that object: replaces the value of a key, removes a key, or adds a key
MutateExtra ==
  /\ "extra" \in DOMAIN lastSent.body
  /\ \E p \in { SetProp(heap[2].props, "traceId", OtherTrace),
                DeleteProp(heap[2].props, "traceId"),
                SetProp(heap[2].props, "k", Num(1)) } :
       /\ p # heap[2].props
       /\ heap' = [heap EXCEPT ![2] = Live(p)]
  /\ UNCHANGED <<config, phase, jsend, log, lastCall, lastSent, ncalls>>

Next ==
  \/ \E r \in Requests : Middleware(r)
  \/ \E r \in Requests : CallSuccess(r)
  \/ \E r \in Requests : CallFail(r)
  \/ \E r \in Requests : CallError(r)

\* the formatter alone
Spec == Init /\ [][Next]_vars

NextMutate ==
  \/ \E r \in Requests : Middleware(r)
  \/ \E r \in Requests : CallError(r)
  \/ MutateExtra

\* error responses with a caller that keeps and changes its extra object
SpecMutate == Init /\ [][NextMutate]_vars

----------------------------------------------------------------------------
(* Vocabulary of the properties *)

Primitive(v) == TypeOf(v) \in {"string", "number", "boolean"}

NonEmptyString(v) == v.t = "string" /\ v.s # <<>>

\* a string with at least one character that is not whitespace
NonBlankString(v) == v.t = "string" /\ \E i \in 1..Len(v.s) : ~IsWhitespace(v.s[i])

\* a step of the system that is a res.jsend.* call
IsCall == ncalls' = ncalls + 1

\* the call just made sent an envelope
Emitted == lastCall.op # "none" /\ lastCall.fault = NoFault

\* nothing was written to any response target in this step
NoWrite == log' = log /\ lastSent' = lastSent

\* the label the configuration gives for an operation, undefined if it gives none
ConfiguredLabel(op) ==
  CASE op = "success" -> config.successLabel
    [] op = "fail" -> config.failLabel
    [] OTHER -> config.errorLabel

BuiltinLabel(op) ==
  CASE op = "success" -> SuccessLabel
    [] op = "fail" -> FailLabel
    [] OTHER -> ErrorLabel

BuiltinStatus(op) ==
  CASE op = "success" -> Num(200)
    [] op = "fail" -> Num(400)
    [] OTHER -> Num(500)

Count(seq, e) == Cardinality({i \in 1..Len(seq) : seq[i] = e})

----------------------------------------------------------------------------
(* C1 *)

\* C1: on the formatter attached by the middleware, a call that passes an
\* explicit label (3rd argument of success and fail, 4th of error) emits an
\* envelope whose status field is that label.
C1_ExplicitLabelUsed ==
  (Emitted /\ lastCall.label # Undefined) => lastSent.body["status"] = lastCall.label

----------------------------------------------------------------------------
(* C2 *)

\* C2: success (resp. fail) called without a label, with data null, an object
\* or omitted, emits exactly {status: L, data} on the caller's target, L being
\* the configured successLabel (failLabel) if given and "success" ("fail")
\* otherwise; the status code is the one passed, or 200 (400) when omitted;
\* omitted data is sent as null.
C2_DataEnvelope ==
  ( /\ lastCall.op \in {"success", "fail"}
    /\ lastCall.label = Undefined
    /\ (lastCall.data \in {Undefined, Null} \/ lastCall.data.t = "object") )
  =>
  /\ lastCall.fault = NoFault
  /\ lastSent.target = lastCall.req
  /\ lastSent.code = IF lastCall.status = Undefined
                     THEN BuiltinStatus(lastCall.op) ELSE lastCall.status
  /\ lastSent.body =
       [status |-> IF ConfiguredLabel(lastCall.op) = Undefined
                   THEN BuiltinLabel(lastCall.op) ELSE ConfiguredLabel(lastCall.op),
        data |-> IF lastCall.data = Undefined THEN Null ELSE lastCall.data]

\* fail(obj) under the configuration {failLabel: "invalid", ...}: 400, {status: "invalid", data: obj}
C2_Witness ==
  /\ lastCall.op = "fail" /\ lastCall.label = Undefined /\ lastCall.status = Undefined
  /\ lastCall.data = DataObj
  /\ config.failLabel = InvalidLabel
  /\ lastSent.code = Num(400)
  /\ lastSent.body = [status |-> InvalidLabel, data |-> DataObj]

----------------------------------------------------------------------------
(* C3 *)

\* C3: success and fail called with a string, number or boolean as data
\* (the falsy "", 0 and false included) raise the data-kind fault and write
\* nothing to the response target.
C3_PrimitiveDataRejected ==
  [][ (IsCall /\ lastCall'.op \in {"success", "fail"} /\ Primitive(lastCall'.data))
      => (lastCall'.fault = InvalidDataKind /\ NoWrite) ]_vars

----------------------------------------------------------------------------
(* C4 *)

\* C4: error called with a message that is not a string, or is a string
\* without a non-whitespace character, raises the invalid-message fault and
\* writes nothing; and the message of every emitted error envelope is a
\* string with at least one non-whitespace character.  (An undefined message
\* is an omitted argument: the default message applies.)
C4_BlankMessageRejected ==
  /\ [][ (IsCall /\ lastCall'.op = "error" /\ lastCall'.message # Undefined
            /\ ~NonBlankString(lastCall'.message))
         => (lastCall'.fault = InvalidMessage /\ NoWrite /\ heap' = heap) ]_vars
  /\ []("message" \in DOMAIN lastSent.body => NonBlankString(lastSent.body["message"]))

\* error(" \r\n", ...) was refused with nothing sent so far
C4_Witness ==
  /\ lastCall.op = "error"
  /\ lastCall.message = Str(<<" ", "\r", "\n">>)
  /\ lastCall.fault = InvalidMessage
  /\ lastSent = NothingSent
  /\ log[lastCall.req] = <<"attach", "next">>

----------------------------------------------------------------------------
(* C5 *)

\* C5: error called with a valid message and an options.extra that is a
\* string, number or boolean (the falsy "", 0 and false included) raises the
\* invalid-extra fault and sends no envelope.
C5_PrimitiveExtraRejected ==
  [][ (IsCall /\ lastCall'.op = "error"
         /\ (lastCall'.message = Undefined \/ NonBlankString(lastCall'.message))
         /\ lastCall'.options # Undefined
         /\ Primitive(lastCall'.options.extra))
      => (lastCall'.fault = InvalidExtraKind /\ NoWrite) ]_vars

----------------------------------------------------------------------------
(* C6 *)

\* C6: the envelope of a valid error call has exactly the keys status and
\* message plus, independently for code, details and extra, that key iff the
\* option is truthy; code and details are the option values; the status code
\* is the one passed or 500.  error("Oops") alone, under the default
\* configuration, emits exactly {status: "error", message: "Oops"} with 500.
C6_ErrorEnvelopeKeys ==
  (Emitted /\ lastCall.op = "error") =>
    LET o == IF lastCall.options = Undefined THEN EmptyOptions ELSE lastCall.options
        b == lastSent.body
    IN /\ DOMAIN b = {"status", "message"}
                       \cup {k \in {"code", "details", "extra"} : Truthy(o[k])}
       /\ b["message"] = IF lastCall.message = Undefined
                         THEN DefaultMessage ELSE lastCall.message
       /\ ("code" \in DOMAIN b => b["code"] = o.code)
       /\ ("details" \in DOMAIN b => b["details"] = o.details)
       /\ ("extra" \in DOMAIN b =>
             /\ b["extra"].t = "object"
             /\ heap[b["extra"].n].live
             /\ heap[b["extra"].n].props = heap[o.extra.n].props)
       /\ lastSent.code = IF lastCall.status = Undefined THEN Num(500) ELSE lastCall.status
       /\ ( (lastCall.message = Oops /\ lastCall.status = Undefined
               /\ lastCall.options = Undefined /\ config = EmptyConfig)
            => (b = [status |-> ErrorLabel, message |-> Oops] /\ lastSent.code = Num(500)) )

\* an envelope with details but no code key, from options {code: "", details: obj}
C6_Witness ==
  /\ Emitted /\ lastCall.op = "error"
  /\ lastCall.options # Undefined
  /\ lastCall.options.code = EmptyString
  /\ lastCall.options.details = DataObj
  /\ DOMAIN lastSent.body = {"status", "message", "details"}

----------------------------------------------------------------------------
(* C7 *)

\* C7 as stated: the status field of every emitted envelope is a non-empty
\* string, under every configuration and per-call label.
C7_StatusNonEmpty ==
  Emitted => NonEmptyString(lastSent.body["status"])

\* C7 as amended: the status field of every emitted envelope is the
\* configuration's label for that operation when it gives one, and the
\* built-in default only when it gives none; so it is a non-empty string
\* whenever the configured label is omitted or is a non-empty string, and a
\* configured empty label is emitted as it is.
C7_StatusIsConfiguredLabel ==
  Emitted =>
    LET c == ConfiguredLabel(lastCall.op)
        st == lastSent.body["status"]
    IN /\ st = IF c = Undefined THEN BuiltinLabel(lastCall.op) ELSE c
       /\ (c = Undefined \/ NonEmptyString(c)) => NonEmptyString(st)

\* an error envelope sent with status "" under the configuration {errorLabel: ""}
C7_Witness ==
  /\ Emitted /\ lastCall.op = "error"
  /\ config.errorLabel = EmptyString
  /\ lastSent.body["status"] = EmptyString

----------------------------------------------------------------------------
(* C8 *)

\* C8: once error has sent an envelope with an extra field, the contents of
\* that field stay what they were when sent, whatever the caller then adds to,
\* removes from or replaces in the object it passed as options.extra.
C8_ExtraIsolated ==
  [][ ("extra" \in DOMAIN lastSent.body /\ lastSent' = lastSent)
      => heap'[lastSent.body["extra"].n] = heap[lastSent.body["extra"].n] ]_vars

\* the envelope still holds {traceId: "abc123"} after the caller changed its object
C8_Witness ==
  /\ "extra" \in DOMAIN lastSent.body
  /\ heap[lastSent.body["extra"].n].props = ("traceId" :> TraceId)
  /\ heap[2].props = ("k" :> Num(1))

----------------------------------------------------------------------------
(* C9 *)

\* C9 as stated: every execution of the middleware step has attached the
\* formatter and then called next exactly once.
C9_AlwaysAttachesAndContinues ==
  \A r \in Requests :
    phase[r] # "pending" =>
      /\ jsend[r]
      /\ Len(log[r]) >= 2
      /\ SubSeq(log[r], 1, 2) = <<"attach", "next">>
      /\ Count(log[r], "next") = 1

\* C9 as amended: an execution of the middleware step on a response target
\* with callable status and json attaches the formatter and then calls next
\* exactly once, and writes no status or body; on any other target the Jsend
\* constructor throws, and the step attaches nothing, does not call next and
\* writes nothing.
C9_AttachesAndContinuesIfValid ==
  [][ \A r \in Requests :
        (phase[r] = "pending" /\ phase'[r] # "pending") =>
          /\ lastSent' = lastSent
          /\ \A q \in Requests \ {r} : log'[q] = log[q]
          /\ IF phase'[r] = "installed"
             THEN jsend'[r] /\ log'[r] = log[r] \o <<"attach", "next">>
             ELSE ~jsend'[r] /\ log'[r] = log[r] ]_vars

\* one request went through the step, another was handed an unusable target
C9_Witness ==
  \E r, q \in Requests :
    /\ phase[r] = "installed" /\ jsend[r] /\ log[r] = <<"attach", "next">>
    /\ phase[q] = "faulted" /\ ~jsend[q] /\ log[q] = <<>>

----------------------------------------------------------------------------
(* C10 *)

\* C10: a successful call made through request r's formatter writes exactly
\* one status and then one body on r's own response target, and no call,
\* successful or not, writes on the target of another request.
C10_WritesOwnTargetOnce ==
  [][ IsCall =>
        LET r == lastCall'.req
        IN /\ \A q \in Requests \ {r} : log'[q] = log[q]
           /\ IF lastCall'.fault = NoFault
              THEN log'[r] = log[r] \o <<"status", "json">> /\ lastSent'.target = r
              ELSE log'[r] = log[r] ]_vars

\* request 2 answered while request 1, also installed, received nothing
C10_Witness ==
  /\ Emitted /\ lastCall.req = 2
  /\ log[2] = <<"attach", "next", "status", "json">>
  /\ log[1] = <<"attach", "next">>
  /\ lastSent.target = 2

====
